---- MODULE Spec2Model ----
(***************************************************************************)
(* Model of src/src/lib/db/job-details.ts: the JobDetailsDB data-access    *)
(* layer (zod validation, row mapping, CRUD statements and the paginated   *)
(* search) over a single job_details table.                                *)
(*                                                                         *)
(* JavaScript values are tagged records [t, n, s, o]: t is the runtime     *)
(* type, n the number, s the characters of a string (or the elements of a  *)
(* string array), o the fields of a nested object.  JavaScript objects are *)
(* functions from their own keys to values; an absent key is `undefined`.  *)
(***************************************************************************)
EXTENDS Integers, Sequences, FiniteSets, TLC

VARIABLES store, upd, last

vars == <<store, upd, last>>

-----------------------------------------------------------------------------
(* JavaScript values *)

Str(cs) == [t |-> "string", n |-> 0, s |-> cs, o |-> <<>>]

Num(i) == [t |-> "number", n |-> i, s |-> <<>>, o |-> <<>>]

Bool(b) == [t |-> "boolean", n |-> IF b THEN 1 ELSE 0, s |-> <<>>, o |-> <<>>]

Arr(xs) == [t |-> "array", n |-> 0, s |-> xs, o |-> <<>>]

Obj(r) == [t |-> "object", n |-> 0, s |-> <<>>, o |-> <<r>>]

Null == [t |-> "null", n |-> 0, s |-> <<>>, o |-> <<>>]

EmptyObject == [k \in {} |-> Null]

Has(obj, k) == k \in DOMAIN obj

IsType(obj, k, ty) == Has(obj, k) /\ obj[k].t = ty

\* { ...a, ...b }: own keys of both, b's value where both have the key
Spread(a, b) == [k \in DOMAIN a \cup DOMAIN b |-> IF k \in DOMAIN b THEN b[k] ELSE a[k]]

-----------------------------------------------------------------------------
(* Zod schemas *)

VerificationKeys == {"payment", "phone", "email"}

VerificationStatusSchema(v) ==
    /\ v.t = "object"
    /\ \A k \in VerificationKeys : IsType(v.o[1], k, "boolean")

ClientHistorySchema(h) ==
    /\ h.t = "object"
    /\ IsType(h.o[1], "jobsPosted", "number")
    /\ IsType(h.o[1], "hireRate", "number")
    /\ IsType(h.o[1], "totalSpent", "string")
    /\ IsType(h.o[1], "memberSince", "string")
    /\ Has(h.o[1], "verificationStatus")
    /\ VerificationStatusSchema(h.o[1].verificationStatus)

RequiredStrings ==
    {"id", "title", "description", "longDescription", "budget", "time_posted",
     "category", "expertise", "client_location", "jobType", "project_length",
     "activityOn"}

RequiredNumbers == {"proposals", "client_rating"}

OptionalStrings == {"weeklyHours"}

OptionalArrays == {"attachments", "questions"}

SchemaKeys ==
    RequiredStrings \cup RequiredNumbers \cup OptionalStrings \cup OptionalArrays
        \cup {"skills", "client_history"}

\* JobDetailsSchema.parse(obj) does not throw
JobDetailsSchema(obj) ==
    /\ \A k \in RequiredStrings : IsType(obj, k, "string")
    /\ \A k \in RequiredNumbers : IsType(obj, k, "number")
    /\ \A k \in OptionalStrings : Has(obj, k) => obj[k].t = "string"
    /\ \A k \in OptionalArrays : Has(obj, k) => obj[k].t = "array"
    /\ IsType(obj, "skills", "array")
    /\ Has(obj, "client_history") /\ ClientHistorySchema(obj.client_history)

\* the object parse returns: a z.object keeps the schema's keys only
Parsed(obj) == [k \in DOMAIN obj \cap SchemaKeys |-> obj[k]]

-----------------------------------------------------------------------------
(* Row mapping: statement parameters, column types, result rows *)

Columns ==
    {"id", "title", "description", "long_description", "budget", "time_posted",
     "category", "expertise", "proposals", "client_rating", "client_location",
     "job_type", "project_length", "weekly_hours", "skills", "activity_on",
     "client_history", "attachments", "questions"}

\* which validated field is bound to which column
ParamOf ==
    [id |-> "id", title |-> "title", description |-> "description",
     long_description |-> "longDescription", budget |-> "budget",
     time_posted |-> "time_posted", category |-> "category",
     expertise |-> "expertise", proposals |-> "proposals",
     client_rating |-> "client_rating", client_location |-> "client_location",
     job_type |-> "jobType", project_length |-> "project_length",
     weekly_hours |-> "weeklyHours", skills |-> "skills",
     activity_on |-> "activityOn", client_history |-> "client_history",
     attachments |-> "attachments", questions |-> "questions"]

\* JSON.stringify of a validated client history: a string holding the document
JSONstringify(v) == [t |-> "string", n |-> 0, s |-> <<"json">>, o |-> v.o]

\* the values array of the INSERT and the UPDATE; an undefined parameter is
\* sent as NULL
Values(validatedData) ==
    [c \in Columns |->
        IF ~Has(validatedData, ParamOf[c]) THEN Null
        ELSE IF c = "client_history" THEN JSONstringify(validatedData[ParamOf[c]])
        ELSE validatedData[ParamOf[c]]]

\* what a result row holds for a stored cell: NUMERIC comes back as text,
\* JSONB as the parsed document, every other column as it was stored
ColumnRead(c, cell) ==
    IF cell.t = "null" THEN Null
    ELSE IF c = "client_rating" THEN Str(<<ToString(cell.n)>>)
    ELSE IF c = "client_history" THEN [t |-> "object", n |-> 0, s |-> <<>>, o |-> cell.o]
    ELSE cell

ResultRow(row) == [c \in Columns |-> ColumnRead(c, row[c])]

\* faulty variant: the table has no primary key
NoPrimaryKey(st, id) == FALSE

\* id TEXT PRIMARY KEY
PrimaryKeyTaken(st, id) == \E row \in st : row.id = id

RowsWithId(st, id) == {row \in st : row.id = id}

-----------------------------------------------------------------------------
(* Operations: each returns the store it leaves, what the caller gets and the
   statements it issued *)

NoCall ==
    [op |-> "none", id |-> Null, arg |-> EmptyObject, cur |-> <<>>,
     outcome |-> "none", ret |-> <<>>, total |-> 0, page |-> 0, limit |-> 0,
     offset |-> 0, stmts |-> <<>>]

\* faulty variant: createJob that inserts what it was given and validates afterwards
createJobInsertFirst(st, jobDetails) ==
    LET row == Values(Parsed(jobDetails)) IN
    IF ~JobDetailsSchema(jobDetails)
    THEN [store |-> IF PrimaryKeyTaken(st, row.id) THEN st ELSE st \cup {row},
          outcome |-> "ValidationError", ret |-> <<>>, stmts |-> <<"INSERT">>]
    ELSE IF PrimaryKeyTaken(st, row.id)
         THEN [store |-> st, outcome |-> "DuplicateKeyError", ret |-> <<>>,
               stmts |-> <<"INSERT">>]
         ELSE [store |-> st \cup {row}, outcome |-> "ok", ret |-> <<ResultRow(row)>>,
               stmts |-> <<"INSERT">>]

\* createJob: parse, then INSERT ... RETURNING *
createJob(st, jobDetails) ==
    IF ~JobDetailsSchema(jobDetails)
    THEN [store |-> st, outcome |-> "ValidationError", ret |-> <<>>, stmts |-> <<>>]
    ELSE LET row == Values(Parsed(jobDetails)) IN
         IF PrimaryKeyTaken(st, row.id)
         THEN [store |-> st, outcome |-> "DuplicateKeyError", ret |-> <<>>,
               stmts |-> <<"INSERT">>]
         ELSE [store |-> st \cup {row}, outcome |-> "ok", ret |-> <<ResultRow(row)>>,
               stmts |-> <<"INSERT">>]

\* getJob: SELECT by id; null (no element), or rows[0] with clientHistory added
getJob(st, id) ==
    LET rows == RowsWithId(st, id) IN
    IF rows = {} THEN <<>>
    ELSE LET job == ResultRow(CHOOSE row \in rows : TRUE)
         IN <<Spread(job, [clientHistory |-> job.client_history])>>

\* faulty variant: deleteJob that reports success whether or not a row was removed
deleteJobAlwaysTrue(st, id) ==
    [store |-> st \ RowsWithId(st, id), outcome |-> "true", ret |-> <<>>,
     stmts |-> <<"DELETE">>]

\* deleteJob: DELETE ... RETURNING id; result.rows.length > 0
deleteJob(st, id) ==
    LET rows == RowsWithId(st, id) IN
    [store |-> st \ rows, outcome |-> IF Cardinality(rows) > 0 THEN "true" ELSE "false",
     ret |-> <<>>, stmts |-> <<"DELETE">>]

\* faulty variant: updateJob without its not-found return
NeverNotFound(currentJob) == FALSE

\* !currentJob
NotFound(currentJob) == currentJob = <<>>

\* the own keys of what getJob returned (spreading null gives none)
CurrentFields(currentJob) == IF currentJob = <<>> THEN EmptyObject ELSE currentJob[1]

\* updateJob after its getJob resolved: merge, parse, UPDATE ... WHERE id
updateJobWrite(st, id, currentJob, jobDetails) ==
    LET updatedJob == Spread(CurrentFields(currentJob), jobDetails) IN
    IF ~JobDetailsSchema(updatedJob)
    THEN [store |-> st, outcome |-> "ValidationError", ret |-> <<>>,
          stmts |-> <<"SELECT">>]
    ELSE LET set  == Values(Parsed(updatedJob))
             hit  == RowsWithId(st, id)
             new  == {[c \in Columns |-> IF c = "id" THEN row.id ELSE set[c]] : row \in hit}
         IN IF hit = {}
            THEN [store |-> st, outcome |-> "undefined", ret |-> <<>>,
                  stmts |-> <<"SELECT", "UPDATE">>]
            ELSE [store |-> (st \ hit) \cup new, outcome |-> "ok",
                  ret |-> <<ResultRow(CHOOSE row \in new : TRUE)>>,
                  stmts |-> <<"SELECT", "UPDATE">>]

-----------------------------------------------------------------------------
(* searchJobs: the WHERE clause, the ordering and the page *)

\* if (searchParams.k): present and not the empty string
Truthy(searchParams, k) == Has(searchParams, k) /\ searchParams[k].s # <<>>

\* ILIKE folds case
Lower(ch) == IF ch = "A" THEN "a" ELSE IF ch = "B" THEN "b" ELSE ch

\* LIKE: % stands for any run of characters, _ for any one character
RECURSIVE Like(_, _)
Like(text, pattern) ==
    IF pattern = <<>> THEN text = <<>>
    ELSE IF Head(pattern) = "%"
         THEN Like(text, Tail(pattern)) \/ (text # <<>> /\ Like(Tail(text), pattern))
    ELSE IF text = <<>> THEN FALSE
    ELSE IF Head(pattern) = "_" THEN Like(Tail(text), Tail(pattern))
    ELSE Lower(Head(text)) = Lower(Head(pattern)) /\ Like(Tail(text), Tail(pattern))

\* column ILIKE `%${searchParams.search}%`
ILike(cell, search) == Like(cell.s, <<"%">> \o search.s \o <<"%">>)

\* conditions.join(' AND ') over the row
Where(row, searchParams) ==
    /\ Truthy(searchParams, "category") => row.category = searchParams.category
    /\ Truthy(searchParams, "search") =>
          \/ ILike(row.title, searchParams.search)
          \/ ILike(row.description, searchParams.search)
          \/ ILike(row.long_description, searchParams.search)
    /\ Truthy(searchParams, "expertise") => row.expertise = searchParams.expertise

Matching(st, searchParams) == {row \in st : Where(row, searchParams)}

Digits == <<"0", "1", "2", "3", "4", "5", "6", "7", "8", "9">>

CharRank(ch) == CHOOSE i \in 1..Len(Digits) : Digits[i] = ch

\* text comparison of two time_posted values
RECURSIVE TextLess(_, _)
TextLess(a, b) ==
    IF b = <<>> THEN FALSE
    ELSE IF a = <<>> THEN TRUE
    ELSE IF Head(a) # Head(b) THEN CharRank(Head(a)) < CharRank(Head(b))
    ELSE TextLess(Tail(a), Tail(b))

\* ORDER BY time_posted DESC: every order of the rows that respects it; rows
\* with equal time_posted come in any order
OrderByTimePostedDesc(rows) ==
    {q \in [1..Cardinality(rows) -> rows] :
        /\ \A i, j \in DOMAIN q : i # j => q[i] # q[j]
        /\ \A i, j \in DOMAIN q : i < j => ~TextLess(q[i].time_posted.s, q[j].time_posted.s)}

\* one row of the result: the columns, total_count and the added clientHistory
SearchRow(row, count) ==
    LET r == Spread(ResultRow(row), [total_count |-> Str(<<ToString(count)>>)])
    IN Spread(r, [clientHistory |-> r.client_history])

\* LIMIT limit OFFSET offset over the ordered rows
LimitOffset(q, limit, offset) ==
    LET upto == IF offset + limit < Len(q) THEN offset + limit ELSE Len(q)
    IN [i \in 1..(upto - offset) |-> q[offset + i]]

\* searchJobs: every result the statement can give; a negative OFFSET is
\* refused by the store
searchJobs(st, searchParams, page, limit) ==
    LET offset == (page - 1) * limit
        matched == Matching(st, searchParams)
        count == Cardinality(matched)
    IN IF offset < 0
       THEN {[outcome |-> "StorageError", jobs |-> <<>>, total |-> 0, offset |-> offset]}
       ELSE {LET rows == LimitOffset(q, limit, offset) IN
             [outcome |-> "ok",
              jobs |-> [i \in 1..Len(rows) |-> SearchRow(rows[i], count)],
              total |-> IF Len(rows) = 0 THEN 0 ELSE count,
              offset |-> offset] : q \in OrderByTimePostedDesc(matched)}

-----------------------------------------------------------------------------
(* Callers: updateJob awaits its getJob before it writes, so another call can
   run in between; every other operation is one statement *)

Callers == {"c1", "c2"}

Idle == [pc |-> "idle", id |-> Null, patch |-> EmptyObject, cur |-> <<>>]

InitializeTable ==
    /\ last' = [NoCall EXCEPT !.op = "initializeTable", !.outcome = "ok",
                              !.stmts = <<"CREATE TABLE IF NOT EXISTS">>]
    /\ UNCHANGED <<store, upd>>

CreateJob(jobDetails) ==
    LET r == createJob(store, jobDetails) IN
    /\ store' = r.store
    /\ last' = [NoCall EXCEPT !.op = "createJob", !.arg = jobDetails,
                              !.id = IF Has(jobDetails, "id") THEN jobDetails.id ELSE Null,
                              !.outcome = r.outcome, !.ret = r.ret, !.stmts = r.stmts]
    /\ UNCHANGED upd

GetJob(id) ==
    LET r == getJob(store, id) IN
    /\ last' = [NoCall EXCEPT !.op = "getJob", !.id = id,
                              !.outcome = IF r = <<>> THEN "null" ELSE "ok",
                              !.ret = r, !.stmts = <<"SELECT">>]
    /\ UNCHANGED <<store, upd>>

DeleteJob(id) ==
    LET r == deleteJob(store, id) IN
    /\ store' = r.store
    /\ last' = [NoCall EXCEPT !.op = "deleteJob", !.id = id, !.outcome = r.outcome,
                              !.stmts = r.stmts]
    /\ UNCHANGED upd

UpdateJobRead(c, id, jobDetails) ==
    /\ upd[c].pc = "idle"
    /\ LET currentJob == getJob(store, id) IN
       IF NotFound(currentJob)
       THEN /\ last' = [NoCall EXCEPT !.op = "updateJob", !.id = id, !.arg = jobDetails,
                                      !.outcome = "null", !.stmts = <<"SELECT">>]
            /\ UNCHANGED upd
       ELSE /\ upd' = [upd EXCEPT ![c] = [pc |-> "read", id |-> id,
                                          patch |-> jobDetails, cur |-> currentJob]]
            /\ UNCHANGED last
    /\ UNCHANGED store

UpdateJobWrite(c) ==
    /\ upd[c].pc = "read"
    /\ LET r == updateJobWrite(store, upd[c].id, upd[c].cur, upd[c].patch) IN
       /\ store' = r.store
       /\ last' = [NoCall EXCEPT !.op = "updateJob", !.id = upd[c].id,
                                 !.arg = upd[c].patch, !.cur = upd[c].cur,
                                 !.outcome = r.outcome, !.ret = r.ret, !.stmts = r.stmts]
    /\ upd' = [upd EXCEPT ![c] = Idle]

SearchJobs(searchParams, page, limit) ==
    /\ \E r \in searchJobs(store, searchParams, page, limit) :
          last' = [NoCall EXCEPT !.op = "searchJobs", !.arg = searchParams,
                                 !.page = page, !.limit = limit, !.offset = r.offset,
                                 !.outcome = r.outcome, !.ret = r.jobs, !.total = r.total,
                                 !.stmts = <<"SELECT">>]
    /\ UNCHANGED <<store, upd>>

-----------------------------------------------------------------------------
(* Inputs of the create/read/update/delete checks *)

Verification == [payment |-> Bool(TRUE), phone |-> Bool(FALSE), email |-> Bool(TRUE)]

History ==
    [jobsPosted |-> Num(3), hireRate |-> Num(80), totalSpent |-> Str(<<"$", "9">>),
     memberSince |-> Str(<<"2", "0">>), verificationStatus |-> Obj(Verification)]

Job(id, title, category, expertise, timePosted) ==
    [id |-> Str(id), title |-> Str(title), description |-> Str(<<"d">>),
     longDescription |-> Str(<<"l">>), budget |-> Str(<<"$", "5">>),
     time_posted |-> Str(timePosted), category |-> Str(category),
     expertise |-> Str(expertise), proposals |-> Num(5), client_rating |-> Num(4),
     client_location |-> Str(<<"N", "P">>), jobType |-> Str(<<"h">>),
     project_length |-> Str(<<"1", "m">>), skills |-> Arr(<<"ts", "sql">>),
     activityOn |-> Str(<<"1", "h">>), client_history |-> Obj(History)]

Without(obj, k) == [x \in DOMAIN obj \ {k} |-> obj[x]]

Id1 == <<"j", "1">>

Id2 == <<"j", "2">>

JobA == Job(Id1, <<"A">>, <<"A">>, <<"x">>, <<"1">>)

JobB ==
    Spread(Job(Id1, <<"B">>, <<"B">>, <<"y">>, <<"2">>),
           [weeklyHours |-> Str(<<"3", "0">>), attachments |-> Arr(<<"cv">>),
            questions |-> Arr(<<>>)])

JobC == Job(Id2, <<"A">>, <<"A">>, <<"x">>, <<"1">>)

JobNoTitle == Without(JobB, "title")

JobBadProposals == [JobC EXCEPT !.proposals = Str(<<"5">>)]

JobBadHistory ==
    [JobC EXCEPT !.client_history = Obj(Without(History, "verificationStatus"))]

CrudJobs == {JobA, JobB, JobC, JobNoTitle, JobBadProposals, JobBadHistory}

CrudIds == {Str(Id1), Str(Id2)}

PatchProposals == [proposals |-> Num(7)]

PatchTitle == [title |-> Str(<<"T">>)]

\* the fields whose row key differs from the schema's, and the NUMERIC one
Renamed ==
    [longDescription |-> Str(<<"l">>), jobType |-> Str(<<"h">>),
     activityOn |-> Str(<<"1", "h">>), client_rating |-> Num(4)]

PatchRenamedProposals == Spread(Renamed, PatchProposals)

Patches == {PatchProposals, PatchTitle, PatchRenamedProposals}

-----------------------------------------------------------------------------

\* the table exists (initializeTable has run) and holds no row; no call is
\* in flight
Init ==
    /\ store = {}
    /\ upd = [c \in Callers |-> Idle]
    /\ last = NoCall

Next ==
    \/ InitializeTable
    \/ \E jobDetails \in CrudJobs : CreateJob(jobDetails)
    \/ \E id \in CrudIds : GetJob(id)
    \/ \E id \in CrudIds : DeleteJob(id)
    \/ \E c \in Callers, id \in CrudIds, jobDetails \in Patches :
          UpdateJobRead(c, id, jobDetails)
    \/ \E c \in Callers : UpdateJobWrite(c)

Spec == Init /\ [][Next]_vars

-----------------------------------------------------------------------------
(* The search checks: a store of up to three jobs, two of them posted at the
   same time, and every filter combination *)

MaxPage == 3

MaxLimit == 2

Sid1 == <<"s", "1">>

Sid2 == <<"s", "2">>

Sid3 == <<"s", "3">>

SearchedJobs ==
    {Job(Sid1, <<"a", "B">>, <<"A">>, <<"x">>, <<"1">>),
     Job(Sid2, <<"_">>, <<"A">>, <<"y">>, <<"1">>),
     Job(Sid3, <<"b">>, <<"B">>, <<"x">>, <<"2">>)}

SearchIds == {Str(Sid1), Str(Sid2), Str(Sid3)}

Filter(k, vs) == {EmptyObject} \cup {[x \in {k} |-> Str(v)] : v \in vs}

SearchParams ==
    {Spread(Spread(c, s), e) :
        c \in Filter("category", {<<"A">>, <<"B">>}),
        s \in Filter("search", {<<>>, <<"b">>, <<"_">>}),
        e \in Filter("expertise", {<<"x">>})}

NextSearch ==
    \/ \E jobDetails \in SearchedJobs : CreateJob(jobDetails)
    \/ \E id \in SearchIds : GetJob(id)
    \/ \E id \in SearchIds : DeleteJob(id)
    \/ \E searchParams \in SearchParams, page \in 0..MaxPage, limit \in 1..MaxLimit :
          SearchJobs(searchParams, page, limit)

SpecSearch == Init /\ [][NextSearch]_vars

-----------------------------------------------------------------------------
(* Properties of create, get, update and delete.  `last` is the most recent
   completed call; every action that changes the store also sets `last`, so
   while `last` stands the store is as that call left it. *)

HasRow(st, id) == \E row \in st : row.id = id

NoWrite(stmts) == \A i \in 1..Len(stmts) : stmts[i] \notin {"INSERT", "UPDATE"}

\* C1: an updateJob that found the row and was given a patch of some
\* top-level fields succeeds, and the row it leaves has the patch's value in
\* every patched column and the value read before in every other column.
C1_PartialUpdateMerge ==
    (last.op = "updateJob" /\ last.cur # <<>> /\ HasRow(store, last.id)) =>
        /\ last.outcome = "ok"
        /\ LET row == CHOOSE r \in store : r.id = last.id IN
           \A c \in Columns :
              IF Has(last.arg, ParamOf[c])
              THEN row[c] = Values(last.arg)[c]
              ELSE ResultRow(row)[c] = last.cur[1][c]

\* C2: after a successful createJob(r), getJob of the returned id gives a
\* record that has every field of r under r's own name with r's value.
C2_RoundTrip ==
    (last.op = "createJob" /\ last.outcome = "ok") =>
        LET got == getJob(store, last.ret[1].id) IN
        /\ got # <<>>
        /\ \A k \in DOMAIN last.arg : Has(got[1], k) /\ got[1][k] = last.arg[k]

\* C3: a createJob of a schema-valid record whose id is already stored fails
\* with DuplicateKeyError and leaves the store as it was; one whose id is
\* not stored succeeds and adds exactly its row; no two rows share an id.
C3_DuplicateRejection ==
    [][(last'.op = "createJob" /\ JobDetailsSchema(last'.arg) /\ UNCHANGED upd) =>
          /\ IF HasRow(store, last'.id)
             THEN last'.outcome = "DuplicateKeyError" /\ store' = store
             ELSE /\ last'.outcome = "ok"
                  /\ \E row \in store' : row.id = last'.id /\ store' = store \cup {row}
          /\ \A r1, r2 \in store' : r1.id = r2.id => r1 = r2]_vars

C3_Witness ==
    /\ last.op = "createJob"
    /\ last.outcome = "DuplicateKeyError"
    /\ \E row \in store : row.id = last.id /\ row.title # last.arg.title

\* C4: a call that ends with a validation error has issued no INSERT and no
\* UPDATE, and the step that ends it leaves the store unchanged.
C4_ValidationBeforeWrite ==
    [][last'.outcome = "ValidationError" =>
          /\ last'.op \in {"createJob", "updateJob"}
          /\ NoWrite(last'.stmts)
          /\ store' = store]_vars

C4_Witness ==
    /\ last.op = "updateJob"
    /\ last.outcome = "ValidationError"
    /\ last.cur # <<>>
    /\ HasRow(store, last.id)

\* C5: an updateJob whose read finds no row for the id returns null whatever
\* the patch, issues no write and leaves every row as it was; a call goes on
\* to merge only when the id has a row.
C5_UpdateMissingId ==
    [][/\ (last'.op = "updateJob" /\ last'.cur = <<>>) =>
              /\ last'.outcome = "null"
              /\ NoWrite(last'.stmts)
              /\ store' = store
       /\ \A c \in Callers :
              (upd[c].pc = "idle" /\ upd'[c].pc = "read") => HasRow(store, upd'[c].id)
       /\ (last'.op = "updateJob" /\ UNCHANGED upd /\ last' # last) =>
              ~HasRow(store, last'.id)]_vars

C5_Witness ==
    /\ last.op = "updateJob"
    /\ last.outcome = "null"
    /\ last.arg = PatchTitle
    /\ store # {}
    /\ ~HasRow(store, last.id)

\* C6: deleteJob returns true exactly when the id had a row, never raises,
\* removes that row and no other, and getJob of the id is null afterwards;
\* only createJob brings an id back, so of the deleteJob calls between two
\* creations of an id exactly the first returns true.
C6_DeleteSignal ==
    [][/\ (last'.op = "deleteJob" /\ UNCHANGED upd) =>
              /\ last'.outcome = (IF HasRow(store, last'.id) THEN "true" ELSE "false")
              /\ store' = {row \in store : row.id # last'.id}
              /\ getJob(store', last'.id) = <<>>
       /\ (\E row \in store' : ~HasRow(store, row.id)) => last'.op = "createJob"]_vars

C6_Witness ==
    /\ last.op = "deleteJob"
    /\ last.outcome = "true"
    /\ ~HasRow(store, last.id)
    /\ store # {}

\* C10: when a caller completes an updateJob right after another one on the
\* same id, both having read the same row and their patches naming disjoint
\* fields, then both calls succeeded and the row holds the second patch
\* while the first patch's columns are back at the values that were read.
C10_LostUpdate ==
    [][\A c \in Callers :
          (/\ upd[c].pc = "read" /\ upd'[c].pc = "idle"
           /\ last.op = "updateJob" /\ last.id = upd[c].id
           /\ last.cur = upd[c].cur
           /\ DOMAIN last.arg \cap DOMAIN upd[c].patch = {}) =>
              /\ last.outcome = "ok"
              /\ last'.outcome = "ok"
              /\ \A row \in RowsWithId(store', upd[c].id) : \A col \in Columns :
                    IF Has(upd[c].patch, ParamOf[col])
                    THEN row[col] = Values(upd[c].patch)[col]
                    ELSE ResultRow(row)[col] = upd[c].cur[1][col]]_vars

-----------------------------------------------------------------------------
(* Properties of searchJobs, over the store of the current state *)

IdsOf(jobs) == {jobs[i].id : i \in DOMAIN jobs}

\* the results of pages 1..n of one query, one result chosen per page
PageRuns(searchParams, limit, n) ==
    {f \in [1..n -> UNION {searchJobs(store, searchParams, p, limit) : p \in 1..n}] :
        \A p \in 1..n : f[p] \in searchJobs(store, searchParams, p, limit)}

RECURSIVE SumLen(_, _)
SumLen(f, n) == IF n = 0 THEN 0 ELSE Len(f[n].jobs) + SumLen(f, n - 1)

\* C7: for every filter set with N matches and every limit >= 1, every page
\* from 1 to one past the last returns total = N, and over pages
\* 1..ceil(N/limit) the page lengths sum to N and no record is on two pages.
C7_PaginationConsistency ==
    \A searchParams \in SearchParams, limit \in 1..MaxLimit :
        LET N == Cardinality(Matching(store, searchParams))
            pages == (N + limit - 1) \div limit
        IN /\ \A page \in 1..(pages + 1) :
                 \A r \in searchJobs(store, searchParams, page, limit) : r.total = N
           /\ \A f \in PageRuns(searchParams, limit, pages) :
                 /\ SumLen(f, pages) = N
                 /\ \A p1, p2 \in 1..pages :
                       p1 # p2 => IdsOf(f[p1].jobs) \cap IdsOf(f[p2].jobs) = {}

\* case-insensitive substring
Contains(text, sub) ==
    \E i \in 0..(Len(text) - Len(sub)) :
        \A j \in 1..Len(sub) : Lower(text[i + j]) = Lower(sub[j])

\* what the filters ask of a row: exact category, exact expertise, and the
\* search text inside title, description or longDescription; a filter that
\* is absent or empty asks nothing
Satisfies(row, searchParams) ==
    /\ Truthy(searchParams, "category") => row.category = searchParams.category
    /\ Truthy(searchParams, "expertise") => row.expertise = searchParams.expertise
    /\ Truthy(searchParams, "search") =>
          \/ Contains(row.title.s, searchParams.search.s)
          \/ Contains(row.description.s, searchParams.search.s)
          \/ Contains(row.long_description.s, searchParams.search.s)

\* C8: a search matches exactly the stored records that satisfy every
\* supplied filter (its first page, taken large enough, holds them all and
\* total counts them), and dropping a filter only adds records.
C8_FilterConjunction ==
    \A searchParams \in SearchParams :
        LET want == {row \in store : Satisfies(row, searchParams)} IN
        /\ \A r \in searchJobs(store, searchParams, 1, Cardinality(store) + 1) :
              /\ IdsOf(r.jobs) = {row.id : row \in want}
              /\ r.total = Cardinality(want)
        /\ \A k \in DOMAIN searchParams :
              Matching(store, searchParams) \subseteq Matching(store, Without(searchParams, k))

\* C9: the offset searchJobs sends is never negative, and a call with
\* page < 1 returns what the call with page 1 returns.
C9_PageNormalization ==
    last.op = "searchJobs" =>
        /\ last.offset >= 0
        /\ last.offset = (IF last.page < 1 THEN 0 ELSE (last.page - 1) * last.limit)
        /\ last.page < 1 =>
              \E r \in searchJobs(store, last.arg, 1, last.limit) :
                  /\ last.outcome = r.outcome
                  /\ last.ret = r.jobs
                  /\ last.total = r.total

====
